---------------------------- MODULE Spec2Model ----------------------------
(***************************************************************************)
(* Slideshow video maker: the render pipeline of VideoGenerator            *)
(* (src/src/core/video_generator.py) and its caller MainWindow             *)
(* (src/src/gui/main_window.py).                                           *)
(***************************************************************************)
EXTENDS Integers, Sequences, FiniteSets, TLC

(***************************************************************************)
(* Python floats.  The code computes the letterbox scale and the progress  *)
(* percentage in binary64: a positive float is a 53-bit mantissa (most     *)
(* significant bit first, bits[1] = 1) times 2^exp; zero has no bits.      *)
(* Division and multiplication round to nearest, ties to even; int()       *)
(* truncates.                                                              *)
(***************************************************************************)
MantissaBits == 53

F64Zero == [bits |-> <<>>, exp |-> 0]

RECURSIVE IntBits(_)
IntBits(n) == IF n = 0 THEN <<>> ELSE Append(IntBits(n \div 2), n % 2)

RECURSIVE BitsToInt(_)
BitsToInt(bits) ==
    IF bits = <<>> THEN 0
    ELSE 2 * BitsToInt(SubSeq(bits, 1, Len(bits) - 1)) + bits[Len(bits)]

RECURSIVE IncBits(_)
IncBits(bits) ==
    IF bits = <<>> THEN <<1>>
    ELSE LET n == Len(bits) IN
         IF bits[n] = 0 THEN [bits EXCEPT ![n] = 1]
         ELSE Append(IncBits(SubSeq(bits, 1, n - 1)), 0)

\* Round a mantissa of exactly MantissaBits bits up or not, and renormalise.
F64Round(bits, exp, up) ==
    LET b == IF up THEN IncBits(bits) ELSE bits IN
    IF Len(b) > MantissaBits
    THEN [bits |-> SubSeq(b, 1, MantissaBits), exp |-> exp + 1]
    ELSE [bits |-> b, exp |-> exp]

\* Long division of the remainder r by b, one quotient bit per step, until
\* the quotient has MantissaBits significant bits; z counts the leading zeros.
RECURSIVE FracBits(_, _, _, _)
FracBits(r, b, bits, z) ==
    IF Len(bits) = MantissaBits THEN [bits |-> bits, rem |-> r, z |-> z]
    ELSE LET r2  == 2 * r
             bit == IF r2 >= b THEN 1 ELSE 0
         IN  IF bits = <<>> /\ bit = 0
             THEN FracBits(r2, b, bits, z + 1)
             ELSE FracBits(r2 - bit * b, b, Append(bits, bit), z)

\* a / b for integers a >= 0, b > 0 (Python true division, correctly rounded).
F64Div(a, b) ==
    IF a = 0 THEN F64Zero
    ELSE LET ib == IntBits(a \div b)
             d  == FracBits(a % b, b, ib, 0)
             up == \/ 2 * d.rem > b
                   \/ 2 * d.rem = b /\ d.bits[MantissaBits] = 1
         IN  F64Round(d.bits, 0 - (d.z + MantissaBits - Len(ib)), up)

\* The exact product of an integer n > 0 and a mantissa, most significant bit first.
RECURSIVE MulBits(_, _, _, _)
MulBits(bits, n, i, carry) ==
    IF i = 0 THEN IntBits(carry)
    ELSE LET t == bits[i] * n + carry
         IN  IF t % 2 = 0
             THEN Append(MulBits(bits, n, i - 1, t \div 2), 0)
             ELSE Append(MulBits(bits, n, i - 1, t \div 2), 1)

\* n * f for an integer n > 0 and a float f >= 0.
F64MulInt(n, f) ==
    IF f.bits = <<>> THEN F64Zero
    ELSE LET prod == MulBits(f.bits, n, MantissaBits, 0)
             drop == Len(prod) - MantissaBits
             kept == SubSeq(prod, 1, MantissaBits)
             up   == /\ drop > 0
                     /\ prod[MantissaBits + 1] = 1
                     /\ \/ kept[MantissaBits] = 1
                        \/ \E i \in (MantissaBits + 2)..Len(prod) : prod[i] = 1
         IN  F64Round(kept, f.exp + drop, up)

\* f < g for floats f, g >= 0.
F64Less(f, g) ==
    IF g.bits = <<>> THEN FALSE
    ELSE IF f.bits = <<>> THEN TRUE
    ELSE IF f.exp # g.exp THEN f.exp < g.exp
    ELSE \E i \in 1..MantissaBits :
            /\ f.bits[i] < g.bits[i]
            /\ \A j \in 1..(i - 1) : f.bits[j] = g.bits[j]

\* Python's min(a, b): b when b < a, else a.
F64Min(f, g) == IF F64Less(g, f) THEN g ELSE f

\* int(f) for a float 0 <= f < 2^31.
F64Trunc(f) ==
    IF f.bits = <<>> \/ MantissaBits + f.exp <= 0 THEN 0
    ELSE BitsToInt(SubSeq(f.bits, 1, MantissaBits + f.exp))

(***************************************************************************)
(* VideoGenerator._resize_clip: scale to fit, centre on a black canvas.    *)
(***************************************************************************)
ScaleFactor(ow, oh, width, height) ==
    F64Min(F64Div(width, ow), F64Div(height, oh))

ResizeDims(ow, oh, width, height) ==
    LET scale_factor == ScaleFactor(ow, oh, width, height)
        new_width    == F64Trunc(F64MulInt(ow, scale_factor))
        new_height   == F64Trunc(F64MulInt(oh, scale_factor))
    IN  [new_width  |-> new_width,
         new_height |-> new_height,
         x_pos      |-> (width - new_width) \div 2,
         y_pos      |-> (height - new_height) \div 2]


(***************************************************************************)
(* Bounds of the model.                                                    *)
(***************************************************************************)
MaxImages == 2      \* longest image sequence handed to one render
MaxFaults == 1      \* library exceptions injected into one render

(***************************************************************************)
(* ImageItem (src/src/core/image_item.py).  Durations are in tenths of a   *)
(* second; filepath names the file, src says what the file is (the renders *)
(* of the model read one file in its different conditions); osize is the   *)
(* of the picture; overlay_effect is "<unset>" while the attribute has not *)
(* been set by the interface.                                              *)
(***************************************************************************)
DefaultDuration      == 30
DefaultStartDuration == 10
DefaultEndDuration   == 10

ImageItem(source, size) ==
    [filepath         |-> "a.jpg",
     src              |-> source,
     osize            |-> size,
     duration         |-> DefaultDuration,
     start_transition |-> "Fade In",
     start_duration   |-> DefaultStartDuration,
     end_transition   |-> "Fade Out",
     end_duration     |-> DefaultEndDuration,
     effect           |-> "None",
     overlay_effect   |-> "<unset>"]

\* MainWindow.update_image_settings: the settings widgets written into the item.
EditedItem(item, eff, ovl, st, en) ==
    [item EXCEPT !.effect = eff, !.overlay_effect = ovl,
                 !.start_transition = st, !.end_transition = en]

\* MainWindow.update_image_settings: the three spin boxes written into the item.
WithDurations(item, d, sd, ed) ==
    [item EXCEPT !.duration = d, !.start_duration = sd, !.end_duration = ed]

\* The ranges of duration_spin and of start_duration and end_duration, in
\* tenths of a second.
MinDurationSpin   == 5
MaxDurationSpin   == 300
MinTransitionSpin == 1
MaxTransitionSpin == 50

\* The image items the renders of the model are given.
LandscapeSize  == <<176, 99>>
SliverSize     == <<1, 3000>>
\* The shortest picture with the longest transitions the spin boxes allow.
ShortItem ==
    WithDurations(ImageItem("ok", LandscapeSize),
                  MinDurationSpin, MaxTransitionSpin, MaxTransitionSpin)

ItemChoices ==
    { ImageItem("ok", LandscapeSize),
      ImageItem("ok", SliverSize),
      ImageItem("missing", LandscapeSize),
      ImageItem("undecodable", LandscapeSize),
      EditedItem(ImageItem("ok", LandscapeSize), "Zoom Out", "Watermark", "None", "None"),
      ShortItem }

RECURSIVE SeqsUpTo(_, _)
SeqsUpTo(S, n) ==
    IF n = 0 THEN { <<>> }
    ELSE LET shorter == SeqsUpTo(S, n - 1)
         IN  shorter \cup { Append(q, x) : q \in { r \in shorter : Len(r) = n - 1 }, x \in S }

(***************************************************************************)
(* VideoGenerator.__init__: the presets.                                   *)
(***************************************************************************)
AspectRatios == {"16:9", "9:16", "4:3"}

\* self.aspect_ratios.get(aspect_ratio, (1920, 1080))
Dimensions(ar) ==
    CASE ar = "16:9" -> <<1920, 1080>>
      [] ar = "9:16" -> <<1080, 1920>>
      [] ar = "4:3"  -> <<1440, 1080>>
      [] OTHER       -> <<1920, 1080>>

FileStates == {"absent", "empty", "nonempty"}

\* os.path.exists(output_path) and os.path.getsize(output_path) > 0
FileHasContentUnsized(f) == f # "absent"
FileHasContent(f) == f = "nonempty"

\* if not image_items
NoImagesNever(items) == FALSE
NoImages(items) == Len(items) = 0

\* for i, item in enumerate(image_items): the loop is over after the last item
LoopDoneEarly(k, n) == k >= n
LoopDone(k, n) == k > n

\* clips.append(clip)
AppendClipFront(cs, c) == <<c>> \o cs
AppendClip(cs, c) == Append(cs, c)

VARIABLES
    pc,                 \* where generate_video is: idle, building, concat, write, writing, returned
    caller,             \* who called: "gui" (MainWindow.generate_video), "api", "none"
    image_items,        \* the argument image_items
    aspect_ratio,       \* the argument aspect_ratio
    file,               \* what is at output_path
    progress_callback,  \* TRUE when a callback is installed
    progress,           \* total_steps, current_step and what the callback got in this call
    i,                  \* the loop index of the image being processed (1-based)
    stage,              \* where _create_image_clip is
    img_clip,           \* the clip _create_image_clip is building
    temp_exists,        \* the normalized temporary copy exists
    clips,              \* the list clips
    final_clip,         \* the concatenated clip
    thread,             \* the progress thread of the encode step
    faults,             \* library exceptions raised so far in this call
    result,             \* how the call ended: none, True, False, ValueError
    hist,               \* what happened in this call
    dialogs,            \* the message boxes MainWindow showed for this call
    current_row,        \* MainWindow: image_list.currentRow(), 1-based, 0 for none
    widgets,            \* MainWindow: the values of the image settings widgets
    image_list,         \* MainWindow: the rows of the list view, one label per row
    buttons,            \* MainWindow: which of Remove, Up and Down are enabled
    call                \* a helper of the generator called on its own: arguments and outcome

vars == <<pc, caller, image_items, aspect_ratio, file, progress_callback, progress, i,
          stage, img_clip, temp_exists, clips, final_clip, thread, faults, result,
          hist, dialogs, current_row, widgets, image_list,
          buttons, call>>

\* The state of the window's image list and settings form, which a render
\* leaves alone.
FormState == <<current_row, widgets, image_list, buttons>>

\* The state of a render, which the window's editing operations leave alone.
RenderState == <<pc, caller, aspect_ratio, file, progress_callback, progress, i, stage,
                 img_clip, temp_exists, clips, final_clip, thread, faults, result,
                 hist, dialogs>>

NoStep  == 0 - 1
NoClip  == [size |-> <<0, 0>>, duration |-> 0, idx |-> 0, closed |-> 0,
            inner |-> <<0, 0>>, stages |-> <<>>]
NoFinal == [created |-> FALSE, parts |-> <<>>, closed |-> 0, duration |-> 0]
NoThread == [state |-> "none", level |-> 0]
NoCall  == [fn |-> "none"]
NoHist  == [failure |-> "none", failed_image |-> 0, started |-> 0, writes |-> 0,
            written_with |-> 0, temps |-> 0, skipped |-> {}, sizes_logged |-> {}]

N == Len(image_items)
width  == Dimensions(aspect_ratio)[1]
height == Dimensions(aspect_ratio)[2]
item   == image_items[i]

(***************************************************************************)
(* VideoGenerator.update_progress.  progress.kinds are the kinds of        *)
(* message the callback got in this call, progress.delivered the step of   *)
(* the last one: the callback is given Percent(delivered, total_steps).    *)
(***************************************************************************)
Percent(cur, total) ==
    IF total > 0 THEN F64Trunc(F64MulInt(100, F64Div(cur, total))) ELSE 0

UpdateProgress(p, kind, step) ==
    LET cur == IF step = NoStep THEN p.current_step + 1 ELSE step
    IN  IF progress_callback
        THEN [p EXCEPT !.current_step = cur,
                       !.delivered = cur,
                       !.kinds = @ \cup {kind}]
        ELSE [p EXCEPT !.current_step = cur]

\* The percentage the callback was last given.
LastPercent == Percent(progress.delivered, progress.total_steps)

Failed(p) == UpdateProgress(p, "failed", p.total_steps)

(***************************************************************************)
(* The pixel size of the clip the compositing library returns.  A clip     *)
(* made by clip.fl takes the size of its frame at t = 0; resize with a     *)
(* number scales both sides and truncates, with a pair it takes the pair   *)
(* as the new size; scroll(clip, h, w) crops h rows and w columns.         *)
(***************************************************************************)
Least(a, b)    == IF a < b THEN a ELSE b
Greatest(a, b) == IF a > b THEN a ELSE b

\* resize by the float num/den: [ns * w, ns * h], then int()
ScaledSize(size, num, den) ==
    <<F64Trunc(F64MulInt(size[1], F64Div(num, den))),
      F64Trunc(F64MulInt(size[2], F64Div(num, den)))>>

\* VideoGenerator._apply_effect
EffectSize(size, effect_type) ==
    CASE effect_type = "Zoom In"           -> ScaledSize(size, 1, 1)
      [] effect_type = "Zoom Out"          -> ScaledSize(size, 11, 10)
      [] effect_type = "Pan Left to Right" -> <<0, Least(size[2], size[1])>>
      [] effect_type = "Pan Right to Left" -> <<0, Greatest(size[2] - size[1], 0)>>
      [] effect_type = "Pan Top to Bottom" -> <<Least(size[1], size[2]), 0>>
      [] effect_type = "Pan Bottom to Top" -> <<Greatest(size[1] - size[2], 0), 0>>
      [] OTHER                             -> size

\* VideoGenerator._apply_start_transition
StartTransitionSize(size, transition_type, duration) ==
    CASE transition_type = "Zoom In" -> ScaledSize(size, 0, duration)
      [] transition_type = "Expand"  -> <<0, 0>>
      [] OTHER                       -> size

\* VideoGenerator._apply_end_transition
EndTransitionSize(size, transition_type, duration, clip_duration) ==
    CASE transition_type = "Zoom Out" ->
             IF 0 > clip_duration - duration
             THEN ScaledSize(size, clip_duration, duration)
             ELSE ScaledSize(size, 1, 1)
      [] transition_type = "Shrink" ->
             IF 0 > clip_duration - duration THEN <<0, 0>> ELSE <<1, 1>>
      [] OTHER -> size

(***************************************************************************)
(* The progress of a transition at time t of the clip, as the transition   *)
(* functions compute it: 1 is the picture fully shown.  Times are tenths   *)
(* of a second; duration is the window handed to the transition.           *)
(***************************************************************************)
F64One == F64Div(1, 1)

\* min(1, t/duration) if t < duration else 1
StartProgress(t, duration) ==
    IF t < duration THEN F64Min(F64One, F64Div(t, duration)) ELSE F64One

\* min(1, (clip_duration - t) / duration) if t > clip_duration - duration else 1
EndProgress(t, duration, clip_duration) ==
    IF t > clip_duration - duration
    THEN F64Min(F64One, F64Div(clip_duration - t, duration))
    ELSE F64One

(***************************************************************************)
(* VideoGenerator.set_progress_callback                                    *)
(***************************************************************************)
SetProgressCallback ==
    /\ UNCHANGED <<FormState, call>>
    /\ pc = "idle"
    /\ ~progress_callback
    /\ progress_callback' = TRUE
    /\ UNCHANGED <<pc, caller, image_items, aspect_ratio, file, progress, i, stage,
                   img_clip, temp_exists, clips, final_clip, thread, faults, result,
                   hist, dialogs>>

(***************************************************************************)
(* VideoGenerator.generate_video, lines 100-123: the empty-input check and *)
(* the initialisation.  MainWindow.generate_video (lines 640-676) calls it *)
(* only with a non-empty list, after its "Processing" message box, and on  *)
(* its own generator (line 30), which is never given a progress callback.  *)
(***************************************************************************)
Call ==
    /\ UNCHANGED <<FormState, call>>
    /\ pc = "idle"
    /\ \E who \in {"gui", "api"}, items \in SeqsUpTo(ItemChoices, MaxImages),
          ar \in AspectRatios :
        /\ who = "gui" => Len(items) > 0 /\ ~progress_callback
        /\ caller' = who
        /\ image_items' = items
        /\ aspect_ratio' = ar
        /\ dialogs' = IF who = "gui" THEN {"Processing"} ELSE {}
        /\ IF NoImages(items)
           THEN /\ result' = "ValueError"
                /\ pc' = "returned"
                /\ UNCHANGED <<progress, stage>>
           ELSE /\ result' = "none"
                /\ progress' = UpdateProgress(
                       [progress EXCEPT !.total_steps = Len(items) * 2 + 10,
                                        !.current_step = 0],
                       "init", 0)
                /\ IF LoopDone(1, Len(items))
                   THEN pc' = "concat" /\ stage' = "none"
                   ELSE pc' = "building" /\ stage' = "load"
    /\ i' = 1
    /\ UNCHANGED <<file, progress_callback, img_clip, temp_exists, clips, final_clip,
                   thread, faults, hist>>

(***************************************************************************)
(* generate_video, lines 256-273: the handler every failure ends in.  p is *)
(* the progress, h the history and f the file when the handler is entered. *)
(***************************************************************************)
CloseAll(cs) == [k \in DOMAIN cs |-> [cs[k] EXCEPT !.closed = @ + 1]]

FailCall(p, h, f) ==
    /\ clips' = CloseAll(clips)
    /\ progress' = Failed(p)
    /\ hist' = h
    /\ result' = IF FileHasContent(f) THEN "True" ELSE "False"
    /\ pc' = "returned"
    /\ stage' = "none"

\* _create_image_clip, lines 404-416, then generate_video, lines 141-145.
\* os.remove of the copy the call has written itself is taken to succeed.
FailBuildKeepsTemp(p) ==
    /\ UNCHANGED temp_exists
    /\ FailCall(Failed(Failed(p)),
                [hist EXCEPT !.failure = "build", !.failed_image = i,
                             !.started = i],
                file)
    /\ UNCHANGED <<caller, image_items, aspect_ratio, file, progress_callback, i,
                   final_clip, thread, dialogs>>
FailBuild(p) ==
    /\ temp_exists' = FALSE
    /\ FailCall(Failed(Failed(p)),
                [hist EXCEPT !.failure = "build", !.failed_image = i,
                             !.started = i],
                file)
    /\ UNCHANGED <<caller, image_items, aspect_ratio, file, progress_callback, i,
                   final_clip, thread, dialogs>>

(***************************************************************************)
(* VideoGenerator._create_image_clip, one action per stage.                *)
(***************************************************************************)
BuildFrame == <<caller, image_items, aspect_ratio, file, progress_callback, i, clips,
                final_clip, thread, result, dialogs>>

\* generate_video line 127, then _create_image_clip lines 280-289: the file
\* must exist and open as an image.
Load ==
    /\ UNCHANGED <<FormState, call>>
    /\ pc = "building" /\ stage = "load"
    /\ LET p == UpdateProgress(progress, "processing", NoStep)
       IN  CASE item.src = "missing" ->
                    /\ FailBuild(p)
                    /\ UNCHANGED <<img_clip, faults>>
             [] item.src = "undecodable" ->
                    /\ FailBuild(Failed(p))
                    /\ UNCHANGED <<img_clip, faults>>
             [] OTHER ->
                    /\ progress' = p
                    /\ stage' = "normalize"
                    /\ hist' = [hist EXCEPT !.started = i]
                    /\ UNCHANGED <<pc, img_clip, temp_exists, faults>>
                    /\ UNCHANGED BuildFrame

\* lines 291-299: convert to RGB and save the temporary copy.
Normalize ==
    /\ UNCHANGED <<FormState, call>>
    /\ pc = "building" /\ stage = "normalize"
    /\ temp_exists' = TRUE
    /\ hist' = [hist EXCEPT !.temps = @ + 1]
    /\ stage' = "imageclip"
    /\ UNCHANGED <<pc, progress, img_clip, faults>>
    /\ UNCHANGED BuildFrame

\* lines 306-314: ImageClip(temp_path); the library may raise.
LoadImageClip ==
    /\ UNCHANGED <<FormState, call>>
    /\ pc = "building" /\ stage = "imageclip"
    /\ \/ /\ img_clip' = [NoClip EXCEPT !.size = item.osize, !.idx = i]
          /\ stage' = "letterbox"
          /\ UNCHANGED <<pc, progress, temp_exists, faults, hist>>
          /\ UNCHANGED BuildFrame
       \/ /\ faults < MaxFaults
          /\ faults' = faults + 1
          /\ FailBuild(Failed(progress))
          /\ UNCHANGED img_clip

\* lines 316-325 and _resize_clip: a side scaled to 0 pixels makes
\* clip.resize raise; the composite takes the size of the background.
Letterbox ==
    /\ UNCHANGED <<FormState, call>>
    /\ pc = "building" /\ stage = "letterbox"
    /\ LET r == ResizeDims(img_clip.size[1], img_clip.size[2], width, height)
       IN  IF r.new_width = 0 \/ r.new_height = 0
           THEN /\ FailBuild(Failed(Failed(Failed(progress))))
                /\ UNCHANGED <<img_clip, faults>>
           ELSE /\ img_clip' = [img_clip EXCEPT !.size = <<width, height>>,
                                               !.inner = <<r.new_width, r.new_height>>]
                /\ stage' = "duration"
                /\ UNCHANGED <<pc, progress, temp_exists, faults, hist>>
                /\ UNCHANGED BuildFrame

\* lines 327-329
SetDuration ==
    /\ UNCHANGED <<FormState, call>>
    /\ pc = "building" /\ stage = "duration"
    /\ img_clip' = [img_clip EXCEPT !.duration = item.duration]
    /\ stage' = "effect"
    /\ UNCHANGED <<pc, progress, temp_exists, faults, hist>>
    /\ UNCHANGED BuildFrame

\* A cosmetic stage: not wanted, applied, or raised and skipped (the clip is
\* kept as it was and the failure is reported through update_progress).
CosmeticHalfApplied(this, next, wanted, size) ==
    /\ UNCHANGED <<FormState, call>>
    /\ pc = "building" /\ stage = this
    /\ stage' = next
    /\ \/ /\ ~wanted
          /\ UNCHANGED <<img_clip, progress, faults, hist>>
       \/ /\ wanted
          /\ img_clip' = [img_clip EXCEPT !.size = size, !.stages = Append(@, this)]
          /\ UNCHANGED <<progress, faults, hist>>
       \/ /\ wanted
          /\ faults < MaxFaults
          /\ faults' = faults + 1
          /\ progress' = Failed(progress)
          /\ hist' = [hist EXCEPT !.skipped = @ \cup {<<i, this>>}]
          /\ img_clip' = [img_clip EXCEPT !.size = size]
    /\ UNCHANGED <<pc, temp_exists>>
    /\ UNCHANGED BuildFrame
Cosmetic(this, next, wanted, size) ==
    /\ UNCHANGED <<FormState, call>>
    /\ pc = "building" /\ stage = this
    /\ stage' = next
    /\ \/ /\ ~wanted
          /\ UNCHANGED <<img_clip, progress, faults, hist>>
       \/ /\ wanted
          /\ img_clip' = [img_clip EXCEPT !.size = size, !.stages = Append(@, this)]
          /\ UNCHANGED <<progress, faults, hist>>
       \/ /\ wanted
          /\ faults < MaxFaults
          /\ faults' = faults + 1
          /\ progress' = Failed(progress)
          /\ hist' = [hist EXCEPT !.skipped = @ \cup {<<i, this>>}]
          /\ UNCHANGED img_clip
    /\ UNCHANGED <<pc, temp_exists>>
    /\ UNCHANGED BuildFrame

\* lines 331-341
EffectThenStart ==
    Cosmetic("effect", "start", item.effect # "None",
             EffectSize(img_clip.size, item.effect))
Effect ==
    Cosmetic("effect", "overlay", item.effect # "None",
             EffectSize(img_clip.size, item.effect))

\* lines 343-358
Overlay ==
    Cosmetic("overlay", "start",
             item.overlay_effect # "<unset>" /\ item.overlay_effect # "None",
             img_clip.size)

\* lines 360-374
StartTransition ==
    Cosmetic("start", "end", item.start_transition # "None",
             StartTransitionSize(img_clip.size, item.start_transition,
                                 item.start_duration))

\* lines 376-390
EndTransition ==
    Cosmetic("end", "finish", item.end_transition # "None",
             EndTransitionSize(img_clip.size, item.end_transition,
                               item.end_duration, img_clip.duration))

\* _create_image_clip lines 392-402 and generate_video lines 132-140: the
\* temporary copy is removed, the clip is returned and appended, the loop
\* goes to the next image.
Finish ==
    /\ UNCHANGED <<FormState, call>>
    /\ pc = "building" /\ stage = "finish"
    /\ temp_exists' = FALSE
    /\ progress' = UpdateProgress(UpdateProgress(progress, "completed", NoStep),
                                  "completed", NoStep)
    /\ clips' = AppendClip(clips, img_clip)
    /\ img_clip' = NoClip
    /\ i' = i + 1
    /\ IF LoopDone(i + 1, N)
       THEN pc' = "concat" /\ stage' = "none"
       ELSE pc' = "building" /\ stage' = "load"
    /\ UNCHANGED <<caller, image_items, aspect_ratio, file, progress_callback,
                   final_clip, thread, faults, result, hist, dialogs>>

(***************************************************************************)
(* generate_video, lines 147-170: concatenation.  concatenate_videoclips   *)
(* starts each clip where the one before it ends (padding = 0); the        *)
(* timeline lasts until the end of the last clip.  With method="compose"   *)
(* clips of different sizes are put on a canvas of the largest size: a     *)
(* difference in size does not make the call raise.                        *)
(***************************************************************************)
ClipEndOverlapped(start, c) == start + c.duration - Least(c.duration, 5)
ClipEnd(start, c) == start + c.duration

RECURSIVE TimelineEnd(_)
TimelineEnd(cs) ==
    IF cs = <<>> THEN 0
    ELSE ClipEnd(TimelineEnd(SubSeq(cs, 1, Len(cs) - 1)), cs[Len(cs)])

\* lines 165-167, in the handler of a failed concatenation: the sizes are
\* logged when the clips do not all have the same size.
ClipSizes(cs) == { cs[k].size : k \in DOMAIN cs }

MismatchLogged(cs) == IF Cardinality(ClipSizes(cs)) > 1 THEN ClipSizes(cs) ELSE {}

Concat ==
    /\ UNCHANGED <<FormState, call>>
    /\ pc = "concat"
    /\ LET p == UpdateProgress(progress, "concat", N * 2 + 1)
       IN  \/ /\ Len(clips) > 0
              /\ final_clip' = [created |-> TRUE,
                                parts   |-> [k \in DOMAIN clips |-> clips[k].idx],
                                closed  |-> 0,
                                duration |-> TimelineEnd(clips)]
              /\ progress' = UpdateProgress(p, "concat", N * 2 + 2)
              /\ pc' = "write"
              /\ UNCHANGED <<clips, result, hist, stage>>
           \/ /\ FailCall(Failed(p),
                          [hist EXCEPT !.failure = "concat",
                                       !.sizes_logged = MismatchLogged(clips)],
                          file)
              /\ UNCHANGED final_clip
    /\ UNCHANGED <<caller, image_items, aspect_ratio, file, progress_callback, i,
                   img_clip, temp_exists, thread, faults, dialogs>>

(***************************************************************************)
(* generate_video, lines 172-248: the encode step and its progress thread. *)
(***************************************************************************)
WriteStart ==
    /\ UNCHANGED <<FormState, call>>
    /\ pc = "write"
    /\ progress' = UpdateProgress(progress, "writing", N * 2 + 3)
    /\ thread' = [state |-> "running", level |-> 0]
    /\ hist' = [hist EXCEPT !.writes = @ + 1, !.written_with = Len(clips)]
    /\ pc' = "writing"
    /\ UNCHANGED <<caller, image_items, aspect_ratio, file, progress_callback, i, stage,
                   img_clip, temp_exists, clips, final_clip, faults, result, dialogs>>

\* update_writing_progress, lines 186-195: one turn of its loop; level is
\* int(progress * 7), which grows with the elapsed time and stays below 7.
\* The turns are sampled at the start, halfway and at the 95 % cap.
WritingLevels == {0, 3, 6}

LevelsFrom(level) == { l \in WritingLevels : l >= level }

ThreadTick ==
    /\ UNCHANGED <<FormState, call>>
    /\ pc = "writing"
    /\ thread.state = "running"
    /\ \E level \in LevelsFrom(thread.level) :
        /\ thread' = [thread EXCEPT !.level = level]
        /\ progress' = UpdateProgress(progress, "writing", N * 2 + 3 + level)
    /\ UNCHANGED <<pc, caller, image_items, aspect_ratio, file, progress_callback, i,
                   stage, img_clip, temp_exists, clips, final_clip, faults, result,
                   hist, dialogs>>

\* lines 216-218 and 225-227: stop_progress_thread = True, then
\* progress_thread.join(1.0) if the thread is alive.  The join waits for one
\* second at most: the thread has ended ("stopped"), or it is still inside
\* the turn of its loop it had begun ("stopping") when the call goes on.
JoinOutcomes(t) ==
    { [state |-> "stopped", level |-> 0], [t EXCEPT !.state = "stopping"] }

\* update_writing_progress, lines 187-195, after the stop flag was set: the
\* thread ends the turn it was in, with the update of that turn if it had
\* not been made yet, and leaves the loop.
ThreadLast ==
    /\ UNCHANGED <<FormState, call>>
    /\ thread.state = "stopping"
    /\ \/ \E level \in LevelsFrom(thread.level) :
            progress' = UpdateProgress(progress, "writing", N * 2 + 3 + level)
       \/ UNCHANGED progress
    /\ thread' = [state |-> "stopped", level |-> 0]
    /\ UNCHANGED <<pc, caller, image_items, aspect_ratio, file, progress_callback, i,
                   stage, img_clip, temp_exists, clips, final_clip, faults, result,
                   hist, dialogs>>

\* lines 204-236: write_videofile returned.
WriteDone ==
    /\ UNCHANGED <<FormState, call>>
    /\ pc = "writing"
    /\ \E f \in FileStates :
        /\ file' = f
        /\ result' = IF FileHasContent(f) THEN "True" ELSE "False"
    /\ thread' \in JoinOutcomes(thread)
    /\ progress' = UpdateProgress(progress, "complete", progress.total_steps)
    /\ pc' = "returned"
    /\ UNCHANGED <<caller, image_items, aspect_ratio, progress_callback, i, stage,
                   img_clip, temp_exists, clips, final_clip, faults, hist, dialogs>>

\* lines 223-229 and 238-248: write_videofile raised; with a non-empty file
\* the call returns True at once, else the error goes on to lines 256-273.
WriteRaise ==
    /\ UNCHANGED <<FormState, call>>
    /\ pc = "writing"
    /\ thread' \in JoinOutcomes(thread)
    /\ \E f \in FileStates :
        /\ file' = f
        /\ IF FileHasContent(f)
           THEN /\ result' = "True"
                /\ progress' = Failed(progress)
                /\ hist' = [hist EXCEPT !.failure = "encode"]
                /\ pc' = "returned"
                /\ UNCHANGED <<clips, stage>>
           ELSE FailCall(Failed(progress), [hist EXCEPT !.failure = "encode"], f)
    /\ UNCHANGED <<caller, image_items, aspect_ratio, progress_callback, i, img_clip,
                   temp_exists, final_clip, faults, dialogs>>

(***************************************************************************)
(* MainWindow.generate_video, lines 678-683: the message box after the     *)
(* call; the value generate_video returned is not looked at.               *)
(***************************************************************************)
Raised(res) == res = "ValueError"

\* The thread generate_video runs on: MainWindow.generate_video is a slot the
\* event loop runs on the interface thread, and it makes the call itself.
RenderThread(who) == IF who = "gui" THEN "interface" ELSE "caller"

GuiMessageByResult(res) == IF res = "True" THEN "Success" ELSE "Error"
GuiMessage(res) == IF Raised(res) THEN "Error" ELSE "Success"

GuiShow ==
    /\ UNCHANGED <<FormState, call>>
    /\ pc = "returned"
    /\ caller = "gui"
    /\ dialogs = {"Processing"}
    /\ dialogs' = dialogs \cup {GuiMessage(result)}
    /\ UNCHANGED <<pc, caller, image_items, aspect_ratio, file, progress_callback,
                   progress, i, stage, img_clip, temp_exists, clips, final_clip, thread,
                   faults, result, hist>>

\* The call is over: its locals are gone; the generator keeps total_steps and
\* current_step, the disk keeps the file.  The next call is made after the
\* progress thread of this one has ended.
Return ==
    /\ UNCHANGED <<FormState, call>>
    /\ pc = "returned"
    /\ caller = "gui" => dialogs # {"Processing"}
    /\ thread.state # "stopping"
    /\ pc' = "idle"
    /\ caller' = "none"
    /\ image_items' = <<>>
    /\ aspect_ratio' = "16:9"
    /\ progress' = [progress EXCEPT !.delivered = 0, !.kinds = {}]
    /\ i' = 1
    /\ stage' = "none"
    /\ img_clip' = NoClip
    /\ clips' = <<>>
    /\ final_clip' = NoFinal
    /\ thread' = NoThread
    /\ faults' = 0
    /\ result' = "none"
    /\ hist' = NoHist
    /\ dialogs' = {}
    /\ UNCHANGED <<file, progress_callback, temp_exists>>

(***************************************************************************)
(* The names the helpers of VideoGenerator implement.                      *)
(***************************************************************************)
\* The names _apply_start_transition compares transition_type with.
StartTransitions ==
    {"Fade In", "Slide In Left", "Slide In Right", "Slide In Top", "Slide In Bottom",
     "Zoom In", "Expand", "Wipe In Left", "Wipe In Right", "Wipe In Top",
     "Wipe In Bottom", "Rotate In"}

\* The names _apply_end_transition compares transition_type with.
EndTransitions ==
    {"Fade Out", "Slide Out Left", "Slide Out Right", "Slide Out Top",
     "Slide Out Bottom", "Zoom Out", "Shrink", "Wipe Out Left", "Wipe Out Right",
     "Wipe Out Top", "Wipe Out Bottom", "Rotate Out"}

\* The names _apply_effect compares effect_type with.
Effects ==
    {"Zoom In", "Zoom Out", "Pan Left to Right", "Pan Right to Left",
     "Pan Top to Bottom", "Pan Bottom to Top", "Sepia", "Grayscale", "Blur",
     "Brightness Pulse", "Color Boost", "Vignette", "Mirror X", "Mirror Y",
     "Rotate Clockwise", "Rotate Counter-Clockwise"}

\* supported_overlays
SupportedOverlays ==
    {"Watermark", "Text Caption", "Border", "Frame", "Vintage", "Dust and Scratches",
     "Film Grain", "Sepia Tone", "Black and White", "Film Noir", "Animated Particles",
     "Dynamic Text", "Animated Gradient", "Animated Frame"}

(***************************************************************************)
(* MainWindow: the image list and the image settings form.  image_items is *)
(* self.image_items; a row is a position in it.                            *)
(***************************************************************************)
MaxGuiImages == 2   \* longest image list built in the window

SettingNames ==
    {"duration", "start_transition", "start_duration", "end_transition",
     "end_duration", "effect", "overlay_effect"}

Settings(d, st, sd, et, ed, eff, ovl) ==
    [duration |-> d, start_transition |-> st, start_duration |-> sd,
     end_transition |-> et, end_duration |-> ed, effect |-> eff,
     overlay_effect |-> ovl]

\* __init__ lines 33-39 and init_ui: the default profile, which the widgets show at first.
ProfileSettings ==
    Settings(DefaultDuration, "Fade In", DefaultStartDuration, "Fade Out",
             DefaultEndDuration, "Zoom In", "None")

InitialWidgets == ProfileSettings

\* One draw of the random mode: random.uniform(2.0, 5.0) for the duration,
\* random.uniform(0.5, 1.5) for the transitions, random.choice for the names.
RandomSettings ==
    { Settings(d, "Fade In", sd, "Fade Out", ed, "Zoom In", "None") :
          d \in {20}, sd \in {15}, ed \in {15} }

\* What the global widgets can hold when the manual mode is applied.
ManualSettings ==
    { Settings(MinDurationSpin, "Fade In", MaxTransitionSpin, "Fade Out",
               MaxTransitionSpin, "None", "None") }

\* init_ui: the names the combo boxes of the form offer (the global combo
\* boxes offer the same names).
StartTransitionItems == {"None"} \cup StartTransitions
EndTransitionItems   == {"None"} \cup EndTransitions
EffectItems          == {"None"} \cup Effects
OverlayItems ==
    {"None", "Watermark", "Text Caption", "Border", "Frame", "Gradient Overlay",
     "Light Leak", "Film Grain", "Dust and Scratches", "Vintage"}

\* The widget changes the user makes in the form: the widget and its new value.
EditChoices ==
    { <<"duration", MinDurationSpin>> }
    \cup { <<"overlay_effect", name>> : name \in {"Light Leak"} \cap OverlayItems }

\* update_image_settings, lines 625-638: every widget is written into the item.
ApplyWidgets(it, w) == [f \in DOMAIN it |-> IF f \in SettingNames THEN w[f] ELSE it[f]]

\* A widget is given the value v (setValue, setCurrentText, or the user): when
\* the value changes, the widget's signal runs update_image_settings on the
\* current item.  s is the pair of the current item and the widgets.
SetWidget(s, f, v) ==
    IF s.widgets[f] = v THEN s
    ELSE LET w == [s.widgets EXCEPT ![f] = v]
         IN  [item |-> ApplyWidgets(s.item, w), widgets |-> w]

\* on_image_selected, lines 562-603, for a row of the list: the widgets are
\* loaded from the item one after the other.
OnImageSelected(it, w) ==
    LET s0 == [item |-> it, widgets |-> w]
        s1 == SetWidget(s0, "duration", s0.item.duration)
        s2 == SetWidget(s1, "start_transition", s1.item.start_transition)
        s3 == SetWidget(s2, "start_duration", s2.item.start_duration)
        s4 == SetWidget(s3, "end_transition", s3.item.end_transition)
        s5 == SetWidget(s4, "end_duration", s4.item.end_duration)
        s6 == SetWidget(s5, "effect", s5.item.effect)
    IN  IF s6.item.overlay_effect # "<unset>"
        THEN SetWidget(s6, "overlay_effect", s6.item.overlay_effect)
        ELSE [SetWidget(s6, "overlay_effect", "None") EXCEPT !.item.overlay_effect = "None"]

\* The settings of a mode written into an item (lines 402-435, 460-493).
WithSettings(it, w) == ApplyWidgets(it, w)

ModeSettings(mode) ==
    CASE mode = "random"  -> RandomSettings
      [] mode = "profile" -> {ProfileSettings}
      [] OTHER            -> ManualSettings

\* The files the dialog offers: they are added in this order, each once.
FileNames == <<"a.jpg", "b.jpg", "c.jpg">>

\* ImageItem.get_filename: the label of the row.
Filename(it) == it.filepath

Labels(items) == [k \in DOMAIN items |-> Filename(items[k])]

\* init_ui lines 66, 70, 74: the three buttons are disabled at first.
NoButtons == [remove |-> FALSE, up |-> FALSE, down |-> FALSE]

\* The window: self.image_items, the rows of self.image_list and its current
\* row, the settings widgets and the buttons.
Win ==
    [items |-> image_items, view |-> image_list, row |-> current_row,
     widgets |-> widgets, buttons |-> buttons]

SetWin(W) ==
    /\ image_items' = W.items
    /\ image_list' = W.view
    /\ current_row' = W.row
    /\ widgets' = W.widgets
    /\ buttons' = W.buttons

\* currentRowChanged(row) runs on_image_selected(row), lines 562-603: the
\* current row is row already; count is image_list.count() at that moment.
Selected(W, row, count) ==
    IF row >= 1 /\ row <= Len(W.items)
    THEN LET s == OnImageSelected(W.items[row], W.widgets)
         IN  [W EXCEPT !.items[row] = s.item,
                       !.widgets = s.widgets,
                       !.row = row,
                       !.buttons = [remove |-> TRUE, up |-> row > 1,
                                    down |-> row < count]]
    ELSE [W EXCEPT !.row = row, !.buttons = NoButtons]

\* takeItem(row) of the current row: before the row is taken out the view
\* makes the row after it current, or the row before it when it is the last,
\* or none; the rows still have their old numbers when the signal is sent.
RowAfterTake(row, count) ==
    IF row < count THEN row + 1 ELSE row - 1

Without(q, k) == [j \in 1..(Len(q) - 1) |-> IF j < k THEN q[j] ELSE q[j + 1]]

Swapped(q, a, b) == [q EXCEPT ![a] = q[b], ![b] = q[a]]

\* add_images, lines 445-512, for one file chosen in the dialog; applied is
\* "no" when apply_to_all_check is off, else the mode of the radio buttons.
FileIndex(label) == CHOOSE k \in DOMAIN FileNames : FileNames[k] = label

\* The place in FileNames of the next file to add: after every file of the list.
NextFile(items) ==
    LET used == { FileIndex(Filename(items[k])) : k \in DOMAIN items }
    IN  IF used = {} THEN 1
        ELSE 1 + CHOOSE m \in used : \A u \in used : u <= m

NewImage ==
    [ImageItem("ok", LandscapeSize) EXCEPT !.filepath = FileNames[NextFile(image_items)]]

AddImages ==
    /\ pc = "idle" /\ call = NoCall
    /\ Len(image_items) < MaxGuiImages
    /\ NextFile(image_items) \in DOMAIN FileNames
    /\ \E applied \in {"no", "manual", "random", "profile"} :
          IF applied = "no"
          THEN image_items' = Append(image_items, NewImage)
          ELSE \E w \in ModeSettings(applied) :
                  image_items' = Append(image_items, WithSettings(NewImage, w))
    /\ image_list' = Append(image_list, Filename(NewImage))
    /\ UNCHANGED <<current_row, widgets, buttons>>
    /\ UNCHANGED <<RenderState, call>>

\* The user clicks a row: currentRowChanged runs on_image_selected(row).
SelectImage ==
    /\ pc = "idle" /\ call = NoCall
    /\ \E row \in DOMAIN image_items :
        /\ row # current_row
        /\ SetWin(Selected(Win, row, Len(image_list)))
    /\ UNCHANGED <<RenderState, call>>

\* The user changes a widget of the form, which is enabled while a row is selected.
EditImage ==
    /\ pc = "idle" /\ call = NoCall
    /\ current_row \in DOMAIN image_items
    /\ \E e \in EditChoices :
        /\ widgets[e[1]] # e[2]
        /\ LET s == SetWidget([item |-> image_items[current_row], widgets |-> widgets],
                              e[1], e[2])
           IN  /\ image_items' = [image_items EXCEPT ![current_row] = s.item]
               /\ widgets' = s.widgets
    /\ UNCHANGED <<current_row, image_list, buttons>>
    /\ UNCHANGED <<RenderState, call>>

\* apply_global_settings, lines 385-443, confirmed with Yes.
ApplyGlobalSettings ==
    /\ pc = "idle" /\ call = NoCall
    /\ image_items # <<>>
    /\ \E mode \in {"manual", "random", "profile"} :
       \E ws \in [DOMAIN image_items -> ModeSettings(mode)] :
          LET applied == [k \in DOMAIN image_items |-> WithSettings(image_items[k], ws[k])]
          IN  IF current_row \in DOMAIN image_items
              THEN SetWin(Selected([Win EXCEPT !.items = applied], current_row,
                                   Len(image_list)))
              ELSE /\ image_items' = applied
                   /\ UNCHANGED <<current_row, widgets, image_list, buttons>>
    /\ UNCHANGED <<RenderState, call>>

\* remove_image, lines 514-534; the Remove button is clicked.
RemoveImage(W) ==
    IF W.row >= 1
    THEN LET n     == Len(W.view)
             taken == Selected(W, RowAfterTake(W.row, n), n)
             left  == [taken EXCEPT !.view = Without(W.view, W.row),
                                    !.items = Without(taken.items, W.row)]
         IN  IF left.items = <<>>
             THEN [left EXCEPT !.buttons = NoButtons]
             ELSE [left EXCEPT !.row = IF W.row <= n - 1 THEN W.row ELSE n - 1]
    ELSE W

RemoveImageClicked ==
    /\ pc = "idle" /\ call = NoCall
    /\ buttons.remove
    /\ SetWin(RemoveImage(Win))
    /\ UNCHANGED <<RenderState, call>>

\* move_image_up, lines 536-547: the items are swapped in self.image_items,
\* the row is taken out of the view and put back one row up, and made current.
MoveImageUpModelOnly(W) ==
    IF W.row > 1
    THEN LET n     == Len(W.view)
             model == [W EXCEPT !.items = Swapped(W.items, W.row, W.row - 1)]
             taken == Selected(model, RowAfterTake(W.row, n), n)
         IN  Selected(taken, W.row - 1, n)
    ELSE W
MoveImageUp(W) ==
    IF W.row > 1
    THEN LET n     == Len(W.view)
             model == [W EXCEPT !.items = Swapped(W.items, W.row, W.row - 1)]
             taken == Selected(model, RowAfterTake(W.row, n), n)
             put   == [taken EXCEPT !.view = Swapped(W.view, W.row, W.row - 1)]
         IN  Selected(put, W.row - 1, n)
    ELSE W

MoveImageUpClicked ==
    /\ pc = "idle" /\ call = NoCall
    /\ buttons.up
    /\ SetWin(MoveImageUp(Win))
    /\ UNCHANGED <<RenderState, call>>

\* move_image_down, lines 549-560.  With no current row (currentRow() is -1)
\* the test -1 < count - 1 passes on a list that is not empty: the last and
\* the first item of self.image_items are swapped (index -1), takeItem(-1)
\* gives no row, and row 0 is made current.
MoveImageDown(W) ==
    LET n == Len(W.view)
    IN  IF W.row >= 1 /\ W.row < n
        THEN LET model == [W EXCEPT !.items = Swapped(W.items, W.row, W.row + 1)]
                 taken == Selected(model, RowAfterTake(W.row, n), n)
                 put   == [taken EXCEPT !.view = Swapped(W.view, W.row, W.row + 1)]
             IN  Selected(put, W.row + 1, n)
        ELSE IF W.row = 0 /\ n >= 1
        THEN Selected([W EXCEPT !.items = Swapped(W.items, n, 1)], 1, n)
        ELSE W

MoveImageDownClicked ==
    /\ pc = "idle" /\ call = NoCall
    /\ buttons.down
    /\ SetWin(MoveImageDown(Win))
    /\ UNCHANGED <<RenderState, call>>

(***************************************************************************)
(* The helpers of VideoGenerator called on their own, on a clip of the     *)
(* preset size.  call holds the arguments and what the helper gave back:   *)
(* a clip, or "raised" when the exception of the compositing library       *)
(* leaves the helper.                                                      *)
(***************************************************************************)
\* The clip a branch of a helper builds from the clip it was given.
Derived(clip, this, size) == [clip EXCEPT !.size = size, !.stages = Append(@, this)]

\* How a helper ends: it gives a clip back, or the exception leaves it.
Gives(clip) == [raised |-> FALSE, clip |-> clip]
RaisedOut   == [raised |-> TRUE, clip |-> NoClip]

\* _apply_start_transition: a branch per name, else: return clip.
ApplyStartTransition(clip, transition_type, duration, raises) ==
    IF transition_type \in StartTransitions
    THEN IF raises THEN RaisedOut
         ELSE Gives(Derived(clip, "start",
                            StartTransitionSize(clip.size, transition_type, duration)))
    ELSE Gives(clip)

\* _apply_end_transition: a branch per name, else: return clip.
ApplyEndTransition(clip, transition_type, duration, raises) ==
    IF transition_type \in EndTransitions
    THEN IF raises THEN RaisedOut
         ELSE Gives(Derived(clip, "end",
                            EndTransitionSize(clip.size, transition_type, duration,
                                              clip.duration)))
    ELSE Gives(clip)

\* _apply_effect: a branch per name, else: return clip.
ApplyEffectAlways(clip, effect_type, raises) ==
    IF raises THEN RaisedOut
    ELSE Gives(Derived(clip, "effect", EffectSize(clip.size, effect_type)))
ApplyEffect(clip, effect_type, raises) ==
    IF effect_type \in Effects
    THEN IF raises THEN RaisedOut
         ELSE Gives(Derived(clip, "effect", EffectSize(clip.size, effect_type)))
    ELSE Gives(clip)

\* _apply_overlay_effect: "None" and the empty name, then the names that are
\* not supported, give the clip back; an exception inside a branch is caught
\* there and the clip is given back.
OverlayApplies(overlay_type) ==
    /\ overlay_type # "None" /\ overlay_type # ""
    /\ overlay_type \in SupportedOverlays

ApplyOverlayEffect(clip, overlay_type, raises) ==
    IF OverlayApplies(overlay_type) /\ ~raises
    THEN Gives(Derived(clip, "overlay", clip.size))
    ELSE Gives(clip)

\* The arguments of the calls.
PresetClips ==
    { [NoClip EXCEPT !.size = Dimensions(ar), !.inner = Dimensions(ar),
                     !.duration = d, !.idx = 1] :
          ar \in AspectRatios, d \in {MinDurationSpin, DefaultDuration} }

UnknownNames == {"None", "", "Gradient Overlay", "Light Leak", "fade in", "Zoom"}

TransitionWindows == {DefaultStartDuration, MaxTransitionSpin}

CallApplyStartTransition ==
    /\ pc = "idle" /\ call = NoCall
    /\ \E clip \in PresetClips, name \in StartTransitions \cup UnknownNames,
          duration \in TransitionWindows, raises \in BOOLEAN :
          call' = [fn |-> "_apply_start_transition", clip |-> clip, name |-> name,
                   duration |-> duration,
                   ret |-> ApplyStartTransition(clip, name, duration, raises)]
    /\ UNCHANGED <<RenderState, FormState, image_items>>

CallApplyEndTransition ==
    /\ pc = "idle" /\ call = NoCall
    /\ \E clip \in PresetClips, name \in EndTransitions \cup UnknownNames,
          duration \in TransitionWindows, raises \in BOOLEAN :
          call' = [fn |-> "_apply_end_transition", clip |-> clip, name |-> name,
                   duration |-> duration,
                   ret |-> ApplyEndTransition(clip, name, duration, raises)]
    /\ UNCHANGED <<RenderState, FormState, image_items>>

CallApplyEffect ==
    /\ pc = "idle" /\ call = NoCall
    /\ \E clip \in PresetClips, name \in Effects \cup UnknownNames,
          raises \in BOOLEAN :
          call' = [fn |-> "_apply_effect", clip |-> clip, name |-> name,
                   ret |-> ApplyEffect(clip, name, raises)]
    /\ UNCHANGED <<RenderState, FormState, image_items>>

\* The except branches of _apply_overlay_effect report through update_progress.
CallApplyOverlayEffect ==
    /\ pc = "idle" /\ call = NoCall
    /\ \E clip \in PresetClips, name \in SupportedOverlays \cup UnknownNames,
          raises \in BOOLEAN :
          /\ call' = [fn |-> "_apply_overlay_effect", clip |-> clip, name |-> name,
                      ret |-> ApplyOverlayEffect(clip, name, raises)]
          /\ progress' = IF OverlayApplies(name) /\ raises
                         THEN Failed(progress) ELSE progress
    /\ UNCHANGED <<pc, caller, aspect_ratio, file, progress_callback, i, stage,
                   img_clip, temp_exists, clips, final_clip, thread, faults, result,
                   hist, dialogs>>
    /\ UNCHANGED <<FormState, image_items>>

(***************************************************************************)
(* The scale factor of the scale-driven transitions at the time t of a     *)
(* frame, as the functions handed to resize compute it.  Times are tenths  *)
(* of a second.                                                            *)
(***************************************************************************)
\* The literal 0.01
F64Hundredth == F64Div(1, 100)

\* Python's max(a, b): b when a < b, else a.
F64Max(f, g) == IF F64Less(f, g) THEN g ELSE f

\* _apply_start_transition, lines 498-514: "Zoom In" and "Expand".
StartScale(transition_type, t, duration) ==
    IF transition_type = "Zoom In"
    THEN IF t < duration THEN F64Min(F64One, F64Div(t, duration)) ELSE F64One
    ELSE IF t < duration
         THEN F64Max(F64Hundredth, F64Min(F64One, F64Div(t, duration)))
         ELSE F64One

\* _apply_end_transition, lines 596-614: "Zoom Out" and "Shrink".
EndScale(transition_type, t, duration, clip_duration) ==
    IF transition_type = "Zoom Out"
    THEN IF t > clip_duration - duration
         THEN F64Min(F64One, F64Div(clip_duration - t, duration))
         ELSE F64One
    ELSE IF t > clip_duration - duration
         THEN F64Max(F64Hundredth,
                     F64Min(F64One, F64Div(clip_duration - t, duration)))
         ELSE F64One

\* The durations of the clips whose frames are made.
ClipDurations == {MinDurationSpin, DefaultDuration}

\* The frame at the time t of a clip with a start transition is made.
StartScaleAt ==
    /\ pc = "idle" /\ call = NoCall
    /\ \E name \in {"Zoom In", "Expand"}, clip_duration \in ClipDurations,
          duration \in TransitionWindows :
       \E t \in 0..(clip_duration - 1) :
          call' = [fn |-> "start scale", name |-> name, t |-> t,
                   duration |-> duration, clip_duration |-> clip_duration,
                   ret |-> StartScale(name, t, duration)]
    /\ UNCHANGED <<RenderState, FormState, image_items>>

\* The frame at the time t of a clip with an end transition is made.
EndScaleAt ==
    /\ pc = "idle" /\ call = NoCall
    /\ \E name \in {"Zoom Out", "Shrink"}, clip_duration \in ClipDurations,
          duration \in TransitionWindows :
       \E t \in 0..(clip_duration - 1) :
          call' = [fn |-> "end scale", name |-> name, t |-> t,
                   duration |-> duration, clip_duration |-> clip_duration,
                   ret |-> EndScale(name, t, duration, clip_duration)]
    /\ UNCHANGED <<RenderState, FormState, image_items>>

(***************************************************************************)
(* One frame of a clip with an overlay, as write_videofile asks for it.    *)
(* The static overlays are frame filters given to clip.fl_image, the       *)
(* animated ones are functions of (get_frame, t) given to clip.fl.         *)
(***************************************************************************)
\* The overlays applied with clip.fl (lines 849, 950, 1013, 1103).
AnimatedOverlays ==
    {"Animated Particles", "Dynamic Text", "Animated Gradient", "Animated Frame"}

\* The overlays that write overlay_text on the frame.
TextOverlays == {"Watermark", "Text Caption", "Dynamic Text"}

\* What the two candidate font paths hold: the system font exists and loads,
\* only the font of the conda environment does, neither file exists, or the
\* file found does not load (ImageFont.truetype raises).
FontStates == {"system", "conda", "absent", "unloadable"}

\* The font the frame function ends up with: a loaded font or None.
ResolveFont(fonts) == IF fonts \in {"system", "conda"} THEN "truetype" ELSE "None"

\* The text on the frame.  measure_raises: draw.textbbox raises.
\*   Watermark (lines 1143-1172): a failed measurement keeps the default box;
\*     the text is drawn with the font, or without one when font is None.
\*   Text Caption (lines 1236-1248): a failed measurement puts the text at
\*     x = 10; with no font the text is drawn without one.
\*   Dynamic Text (lines 913-937): the text is drawn only "if font:", inside a
\*     try that logs and goes on.
FrameText(overlay_type, font, measure_raises) ==
    IF overlay_type \notin TextOverlays THEN "no text"
    ELSE IF overlay_type = "Dynamic Text"
    THEN IF font = "None" \/ measure_raises THEN "omitted" ELSE "styled"
    ELSE IF font = "None" THEN "default" ELSE "styled"

\* The frame function.  draw_raises: a step outside the font and measuring
\* blocks raises (Image.fromarray, the drawing calls, alpha_composite).
\* The static functions wrap their whole body in try/except and return the
\* image they were given; the animated functions have no try around their
\* body, so the error leaves the function.
OverlayFrame(overlay_type, fonts, measure_raises, draw_raises) ==
    IF draw_raises
    THEN IF overlay_type \in AnimatedOverlays
         THEN [raised |-> TRUE, frame |-> "none", text |-> "none"]
         ELSE [raised |-> FALSE, frame |-> "unmodified",
               text |-> IF overlay_type \in TextOverlays THEN "omitted" ELSE "no text"]
    ELSE [raised |-> FALSE, frame |-> "drawn",
          text |-> FrameText(overlay_type, ResolveFont(fonts), measure_raises)]

\* write_videofile asks a clip with an overlay for a frame.
MakeOverlayFrame ==
    /\ pc = "idle" /\ call = NoCall
    /\ \E name \in SupportedOverlays, measure_raises \in BOOLEAN, draw_raises \in BOOLEAN :
       \E fonts \in IF name \in TextOverlays THEN FontStates ELSE {"unused"} :
          call' = [fn |-> "overlay frame", name |-> name, fonts |-> fonts,
                   measure_raises |-> measure_raises, draw_raises |-> draw_raises,
                   ret |-> OverlayFrame(name, fonts, measure_raises, draw_raises)]
    /\ UNCHANGED <<RenderState, FormState, image_items>>

\* The call is over: its arguments and what it gave back are gone.
CallOver ==
    /\ call # NoCall
    /\ call' = NoCall
    /\ UNCHANGED <<RenderState, FormState, image_items>>

Init ==
    /\ pc = "idle"
    /\ caller = "none"
    /\ image_items = <<>>
    /\ aspect_ratio = "16:9"
    /\ file \in FileStates
    /\ progress_callback = FALSE
    /\ progress = [total_steps |-> 0, current_step |-> 0, delivered |-> 0,
                   kinds |-> {}]
    /\ i = 1
    /\ stage = "none"
    /\ img_clip = NoClip
    /\ temp_exists = FALSE
    /\ clips = <<>>
    /\ final_clip = NoFinal
    /\ thread = NoThread
    /\ faults = 0
    /\ result = "none"
    /\ hist = NoHist
    /\ dialogs = {}
    /\ current_row = 0
    /\ widgets = InitialWidgets
    /\ image_list = <<>>
    /\ buttons = NoButtons
    /\ call = NoCall

Next ==
    \/ SetProgressCallback
    \/ Call
    \/ Load
    \/ Normalize
    \/ LoadImageClip
    \/ Letterbox
    \/ SetDuration
    \/ Effect
    \/ Overlay
    \/ StartTransition
    \/ EndTransition
    \/ Finish
    \/ Concat
    \/ WriteStart
    \/ ThreadTick
    \/ WriteDone
    \/ WriteRaise
    \/ ThreadLast
    \/ GuiShow
    \/ Return

Spec == Init /\ [][Next]_vars

\* The window before any render: the operations on the image list and the form.
GuiNext ==
    \/ AddImages
    \/ SelectImage
    \/ EditImage
    \/ ApplyGlobalSettings
    \/ RemoveImageClicked
    \/ MoveImageUpClicked
    \/ MoveImageDownClicked

GuiInit == Init /\ file = "absent"

GuiSpec == GuiInit /\ [][GuiNext]_vars

\* The window with the operations on the image list alone: adding, selecting,
\* removing and moving images.
ListNext ==
    \/ AddImages
    \/ SelectImage
    \/ RemoveImageClicked
    \/ MoveImageUpClicked
    \/ MoveImageDownClicked

ListSpec == GuiInit /\ [][ListNext]_vars

\* The helpers of a generator that is not rendering, called on their own.
UnitNext ==
    \/ CallApplyStartTransition
    \/ CallApplyEndTransition
    \/ CallApplyEffect
    \/ CallApplyOverlayEffect
    \/ StartScaleAt
    \/ EndScaleAt
    \/ MakeOverlayFrame
    \/ CallOver

UnitInit == Init /\ file = "absent"

UnitSpec == UnitInit /\ [][UnitNext]_vars

(***************************************************************************)
(* Properties.                                                             *)
(***************************************************************************)
Returned == pc = "returned"

\* The clips that have been letterboxed: those built and the one in the making.
Letterboxed ==
    { clips[k] : k \in DOMAIN clips }
        \cup (IF img_clip.inner # <<0, 0>> THEN {img_clip} ELSE {})

\* C1: on every way out of generate_video past the empty-input check, every
\* clip that was built, and the concatenated clip if it was created, has had
\* close() called on it exactly once.
C1_ClipsClosedOnce ==
    (Returned /\ ~Raised(result)) =>
        /\ \A k \in DOMAIN clips : clips[k].closed = 1
        /\ final_clip.created => final_clip.closed = 1

\* C2: when the clip of an image fails fatally to build, generate_video does
\* not return True, whatever file is already at output_path.
C2_FatalBuildNeverTrue ==
    (Returned /\ hist.failure = "build") => result # "True"

\* C3: a fatal build failure of an image leaves generate_video as a raised
\* exception, not as a return value.
C3_FatalBuildRaises ==
    (Returned /\ hist.failure = "build") => Raised(result)

\* C4: the encoder write is started at most once, and only after the clips of
\* all N images were built and concatenated; when a clip build or the
\* concatenation fails nothing is written and no later image is built.
C4_WriteOnceAfterAll ==
    /\ hist.writes <= 1
    /\ hist.writes = 1 =>
           /\ hist.written_with = N
           /\ Len(clips) = N
           /\ final_clip.created
           /\ hist.failure \notin {"build", "concat"}
    /\ hist.failure \in {"build", "concat"} =>
           /\ hist.writes = 0
           /\ Returned
    /\ hist.failure = "build" =>
           /\ hist.started = hist.failed_image
           /\ Len(clips) = hist.failed_image - 1

C4_Witness ==
    Returned /\ hist.writes = 1 /\ N >= 2

\* C5: when the encode step raises, generate_video returns True exactly when
\* a non-empty file is at output_path afterwards, and returns False otherwise.
C5_EncodeErrorByFile ==
    (Returned /\ hist.failure = "encode") =>
        /\ result \in {"True", "False"}
        /\ result = "True" <=> file = "nonempty"

C5_Witness ==
    Returned /\ hist.failure = "encode" /\ result = "True"

\* C6: a call with an empty image sequence raises the "No images provided"
\* error at once: total_steps and current_step keep their values, no progress
\* callback is invoked, no clip and no temporary file is made, and the error
\* is not turned into a True or False result.
C6_EmptyRejectedAtOnce ==
    [][(pc = "idle" /\ pc' # "idle" /\ image_items' = <<>>) =>
          /\ pc' = "returned"
          /\ result' = "ValueError"
          /\ UNCHANGED <<progress, img_clip, temp_exists, clips, final_clip, thread,
                         hist>>]_vars

C6_Witness ==
    /\ Returned /\ image_items = <<>> /\ result = "ValueError"
    /\ progress.total_steps > 0 /\ progress_callback
    /\ progress.kinds = {} /\ hist.temps = 0

\* C7: MainWindow.generate_video shows "Success" exactly when generate_video
\* returned True and shows "Error" for every other outcome.
C7_GuiTruthful ==
    (caller = "gui" /\ Returned /\ dialogs # {"Processing"}) =>
        dialogs = {"Processing", GuiMessageByResult(result)}

\* C8: every clip returned by _create_image_clip has exactly the pixel size of
\* the aspect-ratio preset, whatever effect, overlay and transitions it has.
C8_ClipsHavePresetSize ==
    \A k \in DOMAIN clips : clips[k].size = <<width, height>>

\* C9: the letterboxed picture fits inside the target, at least one of its
\* sides equals the target's, the paste offsets are not negative, and a source
\* of the target's aspect ratio fills the target (no black bars).
C9_LetterboxFits ==
    \A c \in Letterboxed :
        LET ow == image_items[c.idx].osize[1]
            oh == image_items[c.idx].osize[2]
            r  == ResizeDims(ow, oh, width, height)
        IN  /\ c.inner = <<r.new_width, r.new_height>>
            /\ r.new_width <= width /\ r.new_height <= height
            /\ r.new_width = width \/ r.new_height = height
            /\ r.x_pos >= 0 /\ r.y_pos >= 0
            /\ ow * height = oh * width =>
                   r.new_width = width /\ r.new_height = height

\* C10: the clips are concatenated in the order of the input sequence: the
\* k-th clip of the timeline is the clip built from the k-th ImageItem.
C10_TimelineInInputOrder ==
    /\ \A k \in DOMAIN clips : clips[k].idx = k
    /\ final_clip.created =>
           /\ Len(final_clip.parts) = N
           /\ \A k \in 1..N : final_clip.parts[k] = k

C10_Witness ==
    final_clip.created /\ N >= 2 /\ pc = "write"

\* C11: the concatenated timeline lasts d1 + ... + dN, the sum of the
\* durations of the N image items, whatever transitions and transition
\* durations the items have: transitions add nothing to a clip's duration.
RECURSIVE SumOfDurations(_)
SumOfDurations(items) ==
    IF items = <<>> THEN 0
    ELSE SumOfDurations(SubSeq(items, 1, Len(items) - 1)) + items[Len(items)].duration

StageOrder ==
    <<"load", "normalize", "imageclip", "letterbox", "duration", "effect",
      "overlay", "start", "end", "finish">>

Rank(s) == CHOOSE k \in DOMAIN StageOrder : StageOrder[k] = s

InStageOrder(stages) ==
    \A j, k \in DOMAIN stages : j < k => Rank(stages[j]) < Rank(stages[k])

C12_StagesInFixedOrder ==
    [][(pc = "building" /\ stage' # stage) =>
          /\ \/ /\ pc' = "building" /\ i' = i
                /\ Rank(stage) < Len(StageOrder)
                /\ stage' = StageOrder[Rank(stage) + 1]
             \/ /\ stage = "finish" /\ i' = i + 1
                /\ stage' = IF i < N THEN "load" ELSE "none"
             \/ /\ pc' = "returned" /\ stage' = "none"
                /\ hist'.failure = "build"
          /\ InStageOrder(img_clip'.stages)
          /\ \A k \in DOMAIN clips' : InStageOrder(clips'[k].stages)]_vars

C12_Witness ==
    /\ pc = "building" /\ stage = "start"
    /\ img_clip.stages = <<"effect", "overlay">>
    /\ \E k \in DOMAIN clips : clips[k].stages = <<"start", "end">>

\* C13: when the effect, overlay, start-transition or end-transition stage of
\* an image raises, that stage alone is skipped: the clip goes into the next
\* stage exactly as it was, the call goes on, the image does not fail to
\* build, and its clip is returned and appended without the skipped stage.
C13_StageSkippedAlone ==
    [][/\ ~(hist'.skipped \subseteq hist.skipped) =>
             /\ pc = "building" /\ pc' = "building" /\ i' = i
             /\ stage \in {"effect", "overlay", "start", "end"}
             /\ hist'.skipped = hist.skipped \cup {<<i, stage>>}
             /\ img_clip' = img_clip
             /\ stage' = StageOrder[Rank(stage) + 1]
             /\ clips' = clips /\ result' = "none" /\ temp_exists' = temp_exists
       /\ \A sk \in hist'.skipped :
             /\ ~(hist'.failure = "build" /\ hist'.failed_image = sk[1])
             /\ i' > sk[1] =>
                    /\ Len(clips') >= sk[1]
                    /\ clips'[sk[1]].idx = sk[1]
                    /\ \A j \in DOMAIN clips'[sk[1]].stages :
                           clips'[sk[1]].stages[j] # sk[2]]_vars

C13_Witness ==
    /\ pc = "building" /\ i = 2 /\ stage = "effect"
    /\ \E sk \in hist.skipped : sk[1] = 1 /\ clips[1].idx = 1

\* C14: a render in which only effect, overlay or transition stages failed
\* ends without an exception, with a success result, and without a failure
\* notification through the progress callback.
C14_SkipNeverSurfaced ==
    (Returned /\ hist.skipped # {} /\ hist.failure = "none" /\ file = "nonempty") =>
        /\ result = "True"
        /\ "failed" \notin progress.kinds

\* C15: within one call of generate_video the progress delivered to the
\* callback never goes down: neither the step nor the percentage.
C15_ProgressMonotonic ==
    [][(pc' # "idle" /\ progress_callback) =>
          /\ progress'.delivered >= progress.delivered
          /\ Percent(progress'.delivered, progress'.total_steps)
                 >= Percent(progress.delivered, progress'.total_steps)]_vars

\* C16: every percentage given to the progress callback is in 0..100:
\* current_step never exceeds total_steps = 2 * N + 10, also after a
\* recoverable stage failure was reported.
C16_PercentInRange ==
    (pc # "idle" /\ ~Raised(result)) =>
        /\ progress.total_steps = 2 * N + 10
        /\ progress.current_step <= progress.total_steps
        /\ LastPercent \in 0..100

\* C17: the progress thread of the encode step has been told to stop and has
\* ended before generate_video returns or raises, after a successful and after
\* a failed encode alike, and it delivers no update after the call returned.
C17_ThreadEndedBeforeReturn ==
    /\ Returned => thread.state \in {"none", "stopped"}
    /\ thread.state # "none" => hist.writes = 1

\* C18: the render never runs on the interface thread: while a render
\* started by MainWindow.generate_video is in progress, it runs on another
\* thread and the interface thread is free to handle events.
C18_RenderOffInterfaceThread ==
    (caller = "gui" /\ pc \in {"building", "concat", "write", "writing"}) =>
        RenderThread(caller) # "interface"

\* C19: a start or end transition applied with a window longer than the
\* clip is clamped to the clip: its progress is in [0, 1] at every time of
\* the clip and reaches 1, the picture fully shown, inside the clip.
HasStage(c, s) == \E j \in DOMAIN c.stages : c.stages[j] = s

InUnitRange(f) == ~F64Less(f, F64Zero) /\ ~F64Less(F64One, f)

C19_WindowClampedToClip ==
    \A k \in DOMAIN clips :
        LET c  == clips[k]
            it == image_items[c.idx]
            ts == 0..(c.duration - 1)
        IN  /\ (HasStage(c, "start") /\ it.start_duration > c.duration) =>
                   /\ \A t \in ts : InUnitRange(StartProgress(t, it.start_duration))
                   /\ \E t \in ts : StartProgress(t, it.start_duration) = F64One
            /\ (HasStage(c, "end") /\ it.end_duration > c.duration) =>
                   /\ \A t \in ts : InUnitRange(EndProgress(t, it.end_duration, c.duration))
                   /\ \E t \in ts : EndProgress(t, it.end_duration, c.duration) = F64One

\* C20: after any sequence of operations in the window (add images, edit an
\* image, apply the global settings in manual, random or default-profile
\* mode) every item has start_duration <= duration and end_duration <= duration.
C20_TransitionsWithinDuration ==
    \A k \in DOMAIN image_items :
        /\ image_items[k].start_duration <= image_items[k].duration
        /\ image_items[k].end_duration <= image_items[k].duration


\* C21: an effect, start-transition, end-transition or overlay name that is
\* not one of the implemented names is a no-op: each of the four helpers gives
\* back the very clip it was given and does not raise.
Implemented(fn, name) ==
    CASE fn = "_apply_start_transition" -> name \in StartTransitions
      [] fn = "_apply_end_transition"   -> name \in EndTransitions
      [] fn = "_apply_effect"           -> name \in Effects
      [] fn = "_apply_overlay_effect"   -> name \in SupportedOverlays
      [] OTHER                          -> TRUE

C21_UnknownNameIsNoOp ==
    ~Implemented(call.fn, call.name) => call.ret = Gives(call.clip)

C21_Witness ==
    /\ call.fn = "_apply_overlay_effect"
    /\ call.name = "Light Leak"
    /\ call.ret = Gives(call.clip)

\* C22: every transition, effect and overlay name the interface lets the user
\* choose (other than "None") is a name the VideoGenerator implements, by
\* exact string: no item the window's operations produce carries a name that
\* falls into the unknown-name branch of a helper.
C22_ChoicesImplemented ==
    \A k \in DOMAIN image_items :
        /\ image_items[k].start_transition \in {"None"} \cup StartTransitions
        /\ image_items[k].end_transition \in {"None"} \cup EndTransitions
        /\ image_items[k].effect \in {"None"} \cup Effects
        /\ image_items[k].overlay_effect \in {"None", "<unset>"} \cup SupportedOverlays

\* C23: after any sequence of add, remove, move-up and move-down operations,
\* each move either leaves the sequence unchanged (the selected row is at that
\* end already, or no row is selected) or swaps exactly the selected ImageItem
\* with its neighbour; the sequence stays a permutation of the same items, its
\* order is the order of the rows of the list view, and move-up followed by
\* move-down restores the order.  An item is told by its file.
UpThenDownRestores ==
    (buttons.up /\ current_row > 1) =>
        LET u == MoveImageUp(Win)
            d == MoveImageDown(u)
        IN  /\ u.buttons.down
            /\ Labels(d.items) = Labels(image_items)
            /\ d.view = image_list
            /\ d.row = current_row

Stored(it) ==
    [it EXCEPT !.overlay_effect = IF @ = "<unset>" THEN "None" ELSE @]

C29_SelectionKeepsSettings ==
    [][ SelectImage =>
            \A k \in DOMAIN image_items : Stored(image_items'[k]) = Stored(image_items[k])
      ]_vars

\* C24: whenever _create_image_clip has written its normalized temporary
\* copy, that file no longer exists when the call returns or raises: the copy
\* exists only while _create_image_clip is between writing it and its exit,
\* on the success path and on every failure path.
InCreateImageClip ==
    /\ pc = "building"
    /\ stage \in {"imageclip", "letterbox", "duration", "effect", "overlay", "start",
                  "end", "finish"}

ConcatenationTried == final_clip.created \/ hist.failure = "concat"

C25_MismatchReported ==
    (ConcatenationTried /\ Cardinality(ClipSizes(clips)) > 1) =>
        hist.sizes_logged = ClipSizes(clips)

\* C26: for the scale-driven transitions (Zoom In and Expand at the start
\* edge, Zoom Out and Shrink at the end edge) the scale factor is at least
\* 0.01 at every time t in [0, clipDuration), t = 0 and the last frame
\* included, and is exactly 1 outside the transition window.
OutsideWindow ==
    \/ call.fn = "start scale" /\ call.t >= call.duration
    \/ call.fn = "end scale" /\ call.t <= call.clip_duration - call.duration

C26_ScaleFloored ==
    call.fn \in {"start scale", "end scale"} =>
        /\ ~F64Less(call.ret, F64Hundredth)
        /\ OutsideWindow => call.ret = F64One

\* C27: for every supported overlay, static and animated, an error raised
\* while the overlay draws one frame is caught and that frame is returned
\* unmodified, so an overlay failure at frame-production time never aborts
\* the encode.
C27_FrameErrorCaught ==
    (call.fn = "overlay frame" /\ call.draw_raises) =>
        ~call.ret.raised /\ call.ret.frame = "unmodified"

\* C28: for every text-bearing overlay (Watermark, Text Caption, Dynamic
\* Text), when none of the candidate font files exists or loads, the overlay
\* still draws its text with the default renderer and does not fail: a
\* missing font never results in the text being omitted.
C28_DefaultRendererUsed ==
    (/\ call.fn = "overlay frame"
     /\ call.name \in TextOverlays
     /\ call.fonts \in {"absent", "unloadable"}
     /\ ~call.draw_raises) =>
        ~call.ret.raised /\ call.ret.text = "default"

\* C30: the progress message "Video generation complete" is delivered to the
\* progress callback only in renders for which generate_video returns True:
\* a render that returns False or raises never announces completion.
C30_CompleteOnlyWhenTrue ==
    "complete" \in progress.kinds => (Returned /\ result = "True")

=============================================================================
